---- MODULE Spec2Model ----
(***************************************************************************)
(* Konnwei battery monitor: the packet codec (protocol.py) and the polling *)
(* coordinator (coordinator.py), as state machines.                        *)
(*                                                                         *)
(* Bytes strings are sequences of integers 0..255, indexed from 1; the     *)
(* helpers At and Slice take the 0-based indices the Python source uses.   *)
(* Optional values: None is the empty tuple, Some(v) the 1-tuple <<v>>.    *)
(***************************************************************************)
EXTENDS Integers, Sequences, FiniteSets, TLC

VARIABLES
  \* ---- codec harness (protocol.py called on one input at a time)
  op,        \* the last protocol.py function applied ("none" before any)
  origin,    \* where `data` came from: "none", "build_packet", "capture", "crafted",
             \* "corrupted" (an accepted capture with one byte replaced)
  edited,    \* TRUE once a byte of `data` was overwritten or bytes were cut off
  command,   \* build_packet's `command` argument
  payload,   \* build_packet's `data` argument
  data,      \* the packet at hand: build_packet's result or inbound bytes
  ret        \* the value returned by `op`

codecVars == <<op, origin, edited, command, payload, data, ret>>

VARIABLES
  \* ---- KonnweiCoordinator (coordinator.py)
  device_info,     \* self._device_info: None or Some(identity)
  response_data,   \* self._response_data: None or Some(bytes)
  response_event,  \* self._response_event: "None", or an Event "unset" / "set"
  pc,              \* where the task running _async_update_data is suspended
  connected,       \* the BLE link of the cycle's BleakClient is up
  \* ---- what a caller and the transport observe of the running / last cycle
  cycle,           \* number of poll cycles started
  cachedAtStart,   \* the identity was cached when the cycle started
  writes,          \* the packets passed to write_gatt_char in the cycle, in order
  outcome,         \* "none", "running", "returned", "UpdateFailed", "CancelledError"
  message,         \* the text of the UpdateFailed raised ("" if none)
  result,          \* the status dict the cycle returned: None or Some(reading)
  prev,            \* <<outcome, message>> of the cycle before
  \* ---- the history of the response slot
  rx,              \* when the bytes in _response_data were delivered: None or
                   \* Some([cycle, exchange, pc, armed]), exchange being the
                   \* number of commands written in the cycle so far, pc where
                   \* the task was suspended and armed whether _response_event
                   \* held an Event
  first,           \* the first bytes delivered since the slot was last armed
  stale,           \* bytes delivered with no wait armed that the last arming
                   \* of the slot discarded
  used             \* the last wait the task resumed from with its event set:
                   \* None or Some([wait, cycle, exchange, bytes, rx, first])

coordVars == <<device_info, response_data, response_event>>
taskVars == <<pc, connected>>
obsVars == <<cycle, cachedAtStart, writes, outcome, message, result, prev>>
histVars == <<rx, first, stale, used>>
obsVarsButWrites == <<cycle, cachedAtStart, outcome, message, result, prev>>
sessionVars == <<coordVars, taskVars, obsVars, histVars>>

vars == <<codecVars, sessionVars>>

----------------------------------------------------------------------------
(* Python values *)

None == <<>>
Some(v) == <<v>>
IsNone(o) == o = <<>>
Get(o) == o[1]

Min(a, b) == IF a < b THEN a ELSE b
Max(a, b) == IF a > b THEN a ELSE b

\* s[i] for a 0-based, non-negative index i
At(s, i) == s[i + 1]

\* s[a:b] for 0 <= a, 0 <= b (a slice never raises: it is clamped to len(s))
Slice(s, a, b) == SubSeq(s, a + 1, Min(b, Len(s)))

\* s[-n:], the last n bytes (all of s when it is shorter)
Last(s, n) == SubSeq(s, Max(1, Len(s) - n + 1), Len(s))

\* s[:-n], all but the last n bytes
ButLast(s, n) == SubSeq(s, 1, Len(s) - n)

\* struct.pack("<H", n) for 0 <= n <= 65535
PackLE16(n) == <<n % 256, (n \div 256) % 256>>

\* struct.unpack("<H", b)[0] for a 2-byte b
UnpackLE16(b) == b[1] + 256 * b[2]

\* a ^ b on non-negative integers
RECURSIVE BitXor(_, _)
BitXor(a, b) ==
  IF a = 0 THEN b
  ELSE IF b = 0 THEN a
  ELSE (((a % 2) + (b % 2)) % 2) + 2 * BitXor(a \div 2, b \div 2)

\* x ^ w for w a power of two: the bit of weight w is inverted
FlipBit(x, w) == IF (x \div w) % 2 = 1 THEN x - w ELSE x + w

----------------------------------------------------------------------------
(* protocol.py *)

\* x ^ 0x8408, where 0x8408 = 2^15 + 2^10 + 2^3
XorPoly(x) == FlipBit(FlipBit(FlipBit(x, 32768), 1024), 8)

\* one pass of the inner loop: if crc & 1: crc = (crc >> 1) ^ 0x8408 else: crc >>= 1
CrcShift(crc) == IF crc % 2 = 1 THEN XorPoly(crc \div 2) ELSE crc \div 2

\* for _ in range(8): n passes of the inner loop
RECURSIVE CrcBits(_, _)
CrcBits(crc, n) ==
  IF n = 0 THEN crc
  ELSE CrcBits(CrcShift(crc), n - 1)

\* for byte in data (from its k-th byte on): crc ^= byte, then the inner loop.
\* (crc < 0 never holds: the test only makes TLC evaluate the register after
\* each byte instead of stacking the unevaluated passes of all the bytes.)
RECURSIVE CrcBytes(_, _, _)
CrcBytes(crc, bytes, k) ==
  IF k > Len(bytes) \/ crc < 0 THEN crc
  ELSE CrcBytes(CrcBits(BitXor(crc, bytes[k]), 8), bytes, k + 1)

\* crc16_x25 without the final XOR
crc16_no_final_xor(bytes) == CrcBytes(65535, bytes, 1)

crc16_x25(bytes) == BitXor(CrcBytes(65535, bytes, 1), 65535)

FOOTER == <<13, 10>>
HEADER_OUT == <<64, 64>>
HEADER_IN == <<36, 36>>
RSP_STATUS == <<75, 11>>
RSP_DEVICE_INFO == <<67, 1>>
RESIDUE == 3911

\* validate_packet comparing only the low byte of the residue
validate_packet_low_byte(bytes) ==
  IF Len(bytes) < 10 THEN FALSE
  ELSE IF Last(bytes, 2) # FOOTER THEN FALSE
  ELSE crc16_x25(ButLast(bytes, 2)) % 256 = RESIDUE % 256

\* validate_packet without its footer test
validate_packet_no_footer(bytes) ==
  IF Len(bytes) < 10 THEN FALSE
  ELSE crc16_x25(ButLast(bytes, 2)) = RESIDUE

validate_packet(bytes) ==
  IF Len(bytes) < 10 THEN FALSE
  ELSE IF Last(bytes, 2) # FOOTER THEN FALSE
  ELSE crc16_x25(ButLast(bytes, 2)) = RESIDUE

\* build_packet packing the CRC big-endian
build_packet_crc_be(cmd, body) ==
  LET length == 10 + Len(body)
      pl     == HEADER_OUT \o PackLE16(length) \o cmd \o body
      crc    == crc16_x25(pl)
  IN  pl \o <<(crc \div 256) % 256, crc % 256>> \o FOOTER

\* build_packet counting header, length, command, payload and CRC only
build_packet_len_8(cmd, body) ==
  LET length == 8 + Len(body)
      pl     == HEADER_OUT \o PackLE16(length) \o cmd \o body
      crc    == crc16_x25(pl)
  IN  pl \o PackLE16(crc) \o FOOTER

\* build_packet using the header of inbound packets
build_packet_header_in(cmd, body) ==
  LET length == 10 + Len(body)
      pl     == HEADER_IN \o PackLE16(length) \o cmd \o body
      crc    == crc16_x25(pl)
  IN  pl \o PackLE16(crc) \o FOOTER

build_packet(cmd, body) ==
  LET length == 10 + Len(body)
      pl     == HEADER_OUT \o PackLE16(length) \o cmd \o body
      crc    == crc16_x25(pl)
  IN  pl \o PackLE16(crc) \o FOOTER

\* voltage_raw / 100.0: the decimal number of volts with two decimals, kept
\* exactly as its integer part and its hundredths.
Volts(raw) == [units |-> raw \div 100, hundredths |-> raw % 100]

\* parse_status_response without its command-code test
parse_status_no_command_check(bytes) ==
  IF Len(bytes) < 14 THEN None
  ELSE IF Slice(bytes, 0, 2) # HEADER_IN THEN None
  ELSE IF ~validate_packet(bytes) THEN None
  ELSE Some([voltage    |-> Volts(UnpackLE16(Slice(bytes, 6, 8))),
             battery_ok |-> (At(bytes, 8) = 2),
             charging   |-> (At(bytes, 9) = 1)])

\* parse_status_response taking every non-zero battery status as OK
parse_status_battery_nonzero(bytes) ==
  IF Len(bytes) < 14 THEN None
  ELSE IF Slice(bytes, 0, 2) # HEADER_IN THEN None
  ELSE IF Slice(bytes, 4, 6) # RSP_STATUS THEN None
  ELSE IF ~validate_packet(bytes) THEN None
  ELSE Some([voltage    |-> Volts(UnpackLE16(Slice(bytes, 6, 8))),
             battery_ok |-> (At(bytes, 8) # 0),
             charging   |-> (At(bytes, 9) = 1)])

\* parse_status_response with a test of the LENGTH field against the
\* documented 0x000E
parse_status_checks_length(bytes) ==
  IF Len(bytes) < 14 THEN None
  ELSE IF Slice(bytes, 0, 2) # HEADER_IN THEN None
  ELSE IF UnpackLE16(Slice(bytes, 2, 4)) # 14 THEN None
  ELSE IF Slice(bytes, 4, 6) # RSP_STATUS THEN None
  ELSE IF ~validate_packet(bytes) THEN None
  ELSE Some([voltage    |-> Volts(UnpackLE16(Slice(bytes, 6, 8))),
             battery_ok |-> (At(bytes, 8) = 2),
             charging   |-> (At(bytes, 9) = 1)])

parse_status_response(bytes) ==
  IF Len(bytes) < 14 THEN None
  ELSE IF Slice(bytes, 0, 2) # HEADER_IN THEN None
  ELSE IF Slice(bytes, 4, 6) # RSP_STATUS THEN None
  ELSE IF ~validate_packet(bytes) THEN None
  ELSE LET voltage_raw    == UnpackLE16(Slice(bytes, 6, 8))
           battery_status == At(bytes, 8)
       IN  Some([voltage    |-> Volts(voltage_raw),
                 battery_ok |-> (battery_status = 2),
                 charging   |-> (At(bytes, 9) = 1)])

\* b.rstrip(b"\x00")
RECURSIVE RStripNul(_)
RStripNul(b) ==
  IF Len(b) > 0 /\ b[Len(b)] = 0 THEN RStripNul(SubSeq(b, 1, Len(b) - 1)) ELSE b

\* a decode that keeps every byte (as latin-1 would)
DecodeKeepAll(b) == b

\* b.decode("ascii", errors="ignore"): the bytes below 0x80 are the string's
\* characters (as code points), every other byte is left out
DecodeAsciiIgnore(b) == SelectSeq(b, LAMBDA x : x < 128)

\* the dict parse_device_info_response returns for a packet it accepted
DeviceInfoFields(bytes) ==
  [model      |-> DecodeAsciiIgnore(RStripNul(Slice(bytes, 6, 16))),
   hw_version |-> DecodeAsciiIgnore(RStripNul(Slice(bytes, 16, 26))),
   fw_version |-> DecodeAsciiIgnore(RStripNul(Slice(bytes, 26, 36)))]

\* parse_device_info_response without its validate_packet test
parse_device_info_no_crc(bytes) ==
  IF Len(bytes) < 54 THEN None
  ELSE IF Slice(bytes, 0, 2) # HEADER_IN THEN None
  ELSE IF Slice(bytes, 4, 6) # RSP_DEVICE_INFO THEN None
  ELSE Some(DeviceInfoFields(bytes))

parse_device_info_response(bytes) ==
  IF Len(bytes) < 54 THEN None
  ELSE IF Slice(bytes, 0, 2) # HEADER_IN THEN None
  ELSE IF Slice(bytes, 4, 6) # RSP_DEVICE_INFO THEN None
  ELSE IF ~validate_packet(bytes) THEN None
  ELSE Some(DeviceInfoFields(bytes))

----------------------------------------------------------------------------
(* binary_sensor.py *)

\* dict.get(key): the value, or None when the key is missing
DictGet(dict, key) == IF key \in DOMAIN dict THEN Some(dict[key]) ELSE None

\* ChargingSensor.is_on, read from coordinator.data (None or Some(dict))
ChargingSensor_is_on(coordinator_data) ==
  IF IsNone(coordinator_data) THEN None
  ELSE LET charging == DictGet(Get(coordinator_data), "charging")
       IN  IF IsNone(charging) THEN None
           ELSE Some(~Get(charging))

----------------------------------------------------------------------------
(* sensor.py.  Voltages are held in hundredths of a volt: a reading is    *)
(* voltage_raw / 100.0 and the configured bounds have at most two          *)
(* decimals.                                                               *)

\* the reading's voltage in hundredths of a volt
Hundredths(voltage) == 100 * voltage.units + voltage.hundredths

\* int(x) for the quotient x = num / den with den > 0: rounds towards zero
IntOfQuotient(num, den) ==
  IF num >= 0 THEN num \div den ELSE -((-num) \div den)

\* max(0, min(100, n))
Clamp(n) == IF n < 0 THEN 0 ELSE IF n > 100 THEN 100 ELSE n

\* the values int(((voltage - voltage_min) / (voltage_max - voltage_min)) * 100)
\* can take in binary floating point, for voltage_max > voltage_min: the
\* exact quotient rounded towards zero; where the exact percentage is a
\* whole number strictly between 0 and 100 the float may fall just below it
\* (2.55 V in 2.38..2.72 V gives 49.999999999999936), and int() then gives
\* one less.  Differences and quotients of floats are monotone, x / x is 1
\* and 0 / x is 0, so at and beyond the bounds the float is exact enough.
IntSoc(voltage, voltage_min, voltage_max) ==
  LET num == (voltage - voltage_min) * 100
      den == voltage_max - voltage_min
      n   == IntOfQuotient(num, den)
  IN  {n} \cup (IF num > 0 /\ num < 100 * den /\ num % den = 0 THEN {n - 1} ELSE {})

\* BatterySoCSensor.native_value returning int(soc) itself
BatterySoCSensor_native_value_unclamped(coordinator_data, options) ==
  IF IsNone(coordinator_data) THEN {None}
  ELSE LET voltage     == DictGet(Get(coordinator_data), "voltage")
           voltage_min == DictGet(options, "voltage_min")
           voltage_max == DictGet(options, "voltage_max")
       IN  IF IsNone(voltage) THEN {None}
           ELSE IF IsNone(voltage_min) \/ IsNone(voltage_max) THEN {None}
           ELSE IF Get(voltage_max) <= Get(voltage_min) THEN {None}
           ELSE {Some(n) : n \in IntSoc(Hundredths(Get(voltage)),
                                        Get(voltage_min), Get(voltage_max))}

\* BatterySoCSensor.native_value, read from coordinator.data (None or
\* Some(dict)) and the entry's options: the set of the values it can return
BatterySoCSensor_native_value(coordinator_data, options) ==
  IF IsNone(coordinator_data) THEN {None}
  ELSE LET voltage     == DictGet(Get(coordinator_data), "voltage")
           voltage_min == DictGet(options, "voltage_min")
           voltage_max == DictGet(options, "voltage_max")
       IN  IF IsNone(voltage) THEN {None}
           ELSE IF IsNone(voltage_min) \/ IsNone(voltage_max) THEN {None}
           ELSE IF Get(voltage_max) <= Get(voltage_min) THEN {None}
           ELSE {Some(Clamp(n)) : n \in IntSoc(Hundredths(Get(voltage)),
                                               Get(voltage_min), Get(voltage_max))}

----------------------------------------------------------------------------
(* The codec harness: protocol.py's functions applied to one input at a    *)
(* time.  Inputs are the packets of tests/test_protocol.py, packets made   *)
(* by build_packet, hand-made inbound packets with a correct CRC, and      *)
(* single edits of those (one byte overwritten, bytes cut off, the CRC     *)
(* field recomputed after an edit).                                        *)

MaxPayload == 3
MaxExtra == 1

\* the inbound packets of tests/test_protocol.py
STATUS_OK_CHARGING == <<36, 36, 14, 0, 75, 11, 238, 4, 2, 1, 8, 180, 13, 10>>
STATUS_LOW == <<36, 36, 14, 0, 75, 11, 238, 4, 0, 1, 184, 135, 13, 10>>
STATUS_NOT_CHARGING == <<36, 36, 14, 0, 75, 11, 238, 4, 2, 0, 129, 165, 13, 10>>
DEVICE_INFO_BK300 ==
  <<36, 36, 54, 0, 67, 1, 66, 75, 51, 48, 48, 0, 0, 0,
     0, 0, 49, 46, 49, 0, 0, 0, 0, 0, 0, 0, 49, 46,
     48, 46, 51, 0, 0, 0, 0, 0, 57, 46, 57, 46, 57, 0,
     0, 0, 0, 0, 0, 4, 0, 4, 51, 230, 13, 10>>
DEVICE_INFO_BK100 ==
  <<36, 36, 54, 0, 67, 1, 66, 75, 49, 48, 48, 0, 0, 0,
     0, 0, 49, 46, 48, 0, 0, 0, 0, 0, 0, 0, 49, 46,
     48, 0, 0, 0, 0, 0, 0, 0, 57, 46, 57, 46, 57, 0,
     0, 0, 0, 0, 0, 4, 0, 4, 218, 198, 13, 10>>

Captures == {STATUS_OK_CHARGING, STATUS_LOW, STATUS_NOT_CHARGING,
             DEVICE_INFO_BK300, DEVICE_INFO_BK100}

\* byte values tried in commands, payloads and edits
ByteSamples == {0, 10, 13, 255}
CommandBytes == {0, 1, 3, 5, 11, 255}
PayloadBytes == {0, 20, 255}

\* BATTERY_PRESETS of const.py (minimum and maximum in hundredths of a volt)
BATTERY_PRESETS ==
  {[voltage_min |-> 1050, voltage_max |-> 1280],
   [voltage_min |-> 1050, voltage_max |-> 1290],
   [voltage_min |-> 1000, voltage_max |-> 1460],
   [voltage_min |-> 900, voltage_max |-> 1260],
   [voltage_min |-> 2100, voltage_max |-> 2560],
   [voltage_min |-> 2000, voltage_max |-> 2920],
   [voltage_min |-> 525, voltage_max |-> 640]}

\* custom ranges the config flow accepts (1.0 V <= min < max <= 60.0 V): the
\* bounds at sampled voltages, and ranges in which 2.55 V and 12.62 V are a
\* whole percentage
CustomRanges ==
  {[voltage_min |-> 1024, voltage_max |-> 1279],
   [voltage_min |-> 1262, voltage_max |-> 1279],
   [voltage_min |-> 238, voltage_max |-> 272],
   [voltage_min |-> 1245, voltage_max |-> 1279],
   [voltage_min |-> 100, voltage_max |-> 6000]}

\* options the config flow does not write: a bound missing, both missing,
\* an empty range and a reversed one
OtherOptions ==
  {[voltage_min |-> 1050],
   [voltage_max |-> 1280],
   [battery_type |-> "custom"],
   [voltage_min |-> 1262, voltage_max |-> 1262],
   [voltage_min |-> 1280, voltage_max |-> 1050]}

EntryOptions == BATTERY_PRESETS \cup CustomRanges \cup OtherOptions

\* all sequences over S of length 0..n
RECURSIVE SeqsUpTo(_, _)
SeqsUpTo(S, n) ==
  IF n = 0 THEN {<<>>}
  ELSE LET shorter == SeqsUpTo(S, n - 1)
       IN  shorter \cup {Append(s, x) : s \in {t \in shorter : Len(t) = n - 1}, x \in S}

\* an inbound packet made by hand: header, LENGTH, command code and body as
\* given, then the CRC of those bytes and the footer
Craft(header, length, cmd, body) ==
  LET pl == header \o PackLE16(length) \o cmd \o body
  IN  pl \o PackLE16(crc16_x25(pl)) \o FOOTER

\* status bodies: voltage (2 bytes LE), battery status, charging indicator
StatusBodies ==
  {<<lo, hi, b, c>> : lo \in {0, 238, 255}, hi \in {0, 4, 255},
                      b \in {0, 1, 2, 3}, c \in {0, 1, 2}}

\* 10-byte text regions: "BK300", all NUL, ten characters, a NUL inside the
\* text, a non-ASCII byte inside the text, a non-ASCII byte after a NUL
FieldSamples ==
  {<<66, 75, 51, 48, 48, 0, 0, 0, 0, 0>>,
   <<0, 0, 0, 0, 0, 0, 0, 0, 0, 0>>,
   <<65, 66, 67, 68, 69, 70, 71, 72, 73, 74>>,
   <<65, 0, 66, 0, 0, 0, 0, 0, 0, 0>>,
   <<65, 200, 66, 0, 0, 0, 0, 0, 0, 0>>,
   <<65, 0, 255, 0, 0, 0, 0, 0, 0, 0>>}

\* the fourth text region and the capability bytes of the BK300 capture
INFO_TAIL == Slice(DEVICE_INFO_BK300, 36, 50)

----------------------------------------------------------------------------
(* Codec harness: state machine *)

CodecInit ==
  /\ op = "none"
  /\ origin = "none"
  /\ edited = FALSE
  /\ command = <<>>
  /\ payload = <<>>
  /\ data = <<>>
  /\ ret = None

\* build_packet(command, data) for a 2-byte command and a bounded payload
BuildPacket ==
  /\ UNCHANGED sessionVars
  /\ origin = "none"
  /\ \E c1 \in CommandBytes, c2 \in CommandBytes, p \in SeqsUpTo(PayloadBytes, MaxPayload) :
       /\ command' = <<c1, c2>>
       /\ payload' = p
       /\ data' = build_packet(<<c1, c2>>, p)
       /\ ret' = build_packet(<<c1, c2>>, p)
  /\ op' = "build_packet"
  /\ origin' = "build_packet"
  /\ UNCHANGED edited

\* one of the captured device packets arrives
Receive ==
  /\ UNCHANGED sessionVars
  /\ origin = "none"
  /\ \E pkt \in Captures : data' = pkt
  /\ origin' = "capture"
  /\ UNCHANGED <<op, edited, command, payload, ret>>

\* a hand-made status packet, possibly longer than the documented 14 bytes,
\* its LENGTH field holding the packet's length or zero
CraftStatus ==
  /\ UNCHANGED sessionVars
  /\ origin = "none"
  /\ \E body \in StatusBodies, extra \in SeqsUpTo({0}, MaxExtra) :
       \E length \in {14 + Len(extra), 0} :
         data' = Craft(HEADER_IN, length, RSP_STATUS, body \o extra)
  /\ origin' = "crafted"
  /\ UNCHANGED <<op, edited, command, payload, ret>>

\* a hand-made device-info packet with the given model, hardware and firmware
\* regions, possibly longer than the documented 54 bytes, its LENGTH field
\* holding the packet's length or zero
CraftDeviceInfo ==
  /\ UNCHANGED sessionVars
  /\ origin = "none"
  /\ \E m \in FieldSamples, h \in FieldSamples, f \in FieldSamples :
       \E extra \in SeqsUpTo({0}, MaxExtra) : \E length \in {54 + Len(extra), 0} :
         data' = Craft(HEADER_IN, length, RSP_DEVICE_INFO,
                       m \o h \o f \o INFO_TAIL \o extra)
  /\ origin' = "crafted"
  /\ UNCHANGED <<op, edited, command, payload, ret>>

\* one byte of a captured packet is replaced by a different value
Overwrite ==
  /\ UNCHANGED sessionVars
  /\ origin = "capture" /\ ~edited /\ op = "none"
  /\ \E i \in 1..Len(data), v \in ByteSamples :
       /\ v # data[i]
       /\ data' = [data EXCEPT ![i] = v]
  /\ edited' = TRUE
  /\ UNCHANGED <<op, origin, command, payload, ret>>

\* a captured packet is cut short
Truncate ==
  /\ UNCHANGED sessionVars
  /\ origin = "capture" /\ ~edited /\ op = "none"
  /\ \E n \in 0..(Len(data) - 1) : data' = SubSeq(data, 1, n)
  /\ edited' = TRUE
  /\ UNCHANGED <<op, origin, command, payload, ret>>

\* the CRC field (the two bytes before the last two) is recomputed over the
\* bytes before it, as the tests do for their hand-made packets
Reseal ==
  /\ UNCHANGED sessionVars
  /\ edited /\ op = "none" /\ Len(data) >= 4
  /\ data' = ButLast(data, 4) \o PackLE16(crc16_x25(ButLast(data, 4))) \o Last(data, 2)
  /\ UNCHANGED <<op, origin, edited, command, payload, ret>>

\* the values a byte b of a packet is replaced by: every other value in a
\* packet no longer than a status packet; in a longer one b with one bit
\* inverted, and the sample values
OtherValues(pkt, b) ==
  IF Len(pkt) <= Len(STATUS_LOW) THEN (0..255) \ {b}
  ELSE ({FlipBit(b, w) : w \in {1, 2, 4, 8, 16, 32, 64, 128}} \cup ByteSamples) \ {b}

\* a captured packet that validate_packet accepted gets one byte before its
\* footer replaced by a different value
Corrupt ==
  /\ UNCHANGED sessionVars
  /\ origin = "capture" /\ ~edited /\ op = "validate_packet" /\ ret = TRUE
  /\ \E i \in 1..(Len(data) - 2) : \E v \in OtherValues(data, data[i]) :
       data' = [data EXCEPT ![i] = v]
  /\ origin' = "corrupted"
  /\ op' = "none"
  /\ ret' = None
  /\ UNCHANGED <<edited, command, payload>>

\* crc16_x25 over the packet at hand, over the packet without its footer
\* (as validate_packet calls it) or without CRC field and footer (as
\* build_packet and the tests call it)
Crc16X25 ==
  /\ UNCHANGED sessionVars
  /\ origin \notin {"none", "corrupted"} /\ op \in {"none", "build_packet"}
  /\ \E arg \in {data, ButLast(data, 2), ButLast(data, 4)} :
       ret' = [bytes |-> arg, crc |-> crc16_x25(arg)]
  /\ op' = "crc16_x25"
  /\ UNCHANGED <<origin, edited, command, payload, data>>

\* the charging sensor read with coordinator.data being what
\* parse_status_response returned (None when the poll failed and no reading
\* was stored), or that reading without its charging field
ReadChargingSensor ==
  /\ UNCHANGED sessionVars
  /\ op = "parse_status_response"
  /\ \E d \in {ret} \cup (IF IsNone(ret) THEN {}
                          ELSE {Some([voltage    |-> Get(ret).voltage,
                                      battery_ok |-> Get(ret).battery_ok])}) :
       ret' = [data |-> d, is_on |-> ChargingSensor_is_on(d)]
  /\ op' = "ChargingSensor.is_on"
  /\ UNCHANGED <<origin, edited, command, payload, data>>

\* the state-of-charge sensor read with coordinator.data being what
\* parse_status_response returned (None when the poll failed and no reading
\* was stored), or that reading without its voltage field, under one of the
\* entry's options
ReadBatterySoCSensor ==
  /\ UNCHANGED sessionVars
  /\ op = "parse_status_response"
  /\ \E d \in {ret} \cup (IF IsNone(ret) THEN {}
                          ELSE {Some([battery_ok |-> Get(ret).battery_ok,
                                      charging   |-> Get(ret).charging])}) :
       \E options \in EntryOptions :
         \E v \in BatterySoCSensor_native_value(d, options) :
           ret' = [data |-> d, options |-> options, native_value |-> v]
  /\ op' = "BatterySoCSensor.native_value"
  /\ UNCHANGED <<origin, edited, command, payload, data>>

ValidatePacket ==
  /\ UNCHANGED sessionVars
  /\ origin # "none" /\ op \in {"none", "build_packet"}
  /\ op' = "validate_packet"
  /\ ret' = validate_packet(data)
  /\ UNCHANGED <<origin, edited, command, payload, data>>

ParseStatusResponse ==
  /\ UNCHANGED sessionVars
  /\ origin \notin {"none", "corrupted"} /\ op \in {"none", "build_packet"}
  /\ op' = "parse_status_response"
  /\ ret' = parse_status_response(data)
  /\ UNCHANGED <<origin, edited, command, payload, data>>

ParseDeviceInfoResponse ==
  /\ UNCHANGED sessionVars
  /\ origin \notin {"none", "corrupted"} /\ op \in {"none", "build_packet"}
  /\ op' = "parse_device_info_response"
  /\ ret' = parse_device_info_response(data)
  /\ UNCHANGED <<origin, edited, command, payload, data>>

CodecNext ==
  \/ BuildPacket
  \/ Receive
  \/ CraftStatus
  \/ CraftDeviceInfo
  \/ Overwrite
  \/ Truncate
  \/ Reseal
  \/ Corrupt
  \/ Crc16X25
  \/ ReadChargingSensor
  \/ ReadBatterySoCSensor
  \/ ValidatePacket
  \/ ParseStatusResponse
  \/ ParseDeviceInfoResponse

----------------------------------------------------------------------------
(* const.py *)

CMD_STATUS_POLL == <<64, 64, 10, 0, 11, 11, 169, 178, 13, 10>>
\* the device-info request with its CRC field left zero
CMD_DEVICE_INFO_crc_zero == <<64, 64, 10, 0, 3, 1, 0, 0, 13, 10>>

CMD_DEVICE_INFO == <<64, 64, 10, 0, 3, 1, 51, 211, 13, 10>>

----------------------------------------------------------------------------
(* coordinator.py: one KonnweiCoordinator, its poll cycles run one at a    *)
(* time by the update coordinator, and the transport around it.  The task  *)
(* of a cycle runs from one await to the next without interruption; the    *)
(* notification callback runs on the same event loop between those steps.  *)

MaxCycles == 2

\* what the device (or anything else on the characteristic) may notify
StatusBadCrc == <<36, 36, 14, 0, 75, 11, 238, 4, 2, 1, 0, 0, 13, 10>>
Notifications ==
  {STATUS_OK_CHARGING, STATUS_NOT_CHARGING, DEVICE_INFO_BK300, DEVICE_INFO_BK100,
   StatusBadCrc, <<>>}

\* `not x` for x an Optional[bytes] or Optional[dict]: None and b"" are falsy
Falsy(o) == IsNone(o) \/ Get(o) = <<>>

SessionInit ==
  /\ device_info = None
  /\ response_data = None
  /\ response_event = "None"
  /\ pc = "idle"
  /\ connected = FALSE
  /\ cycle = 0
  /\ cachedAtStart = FALSE
  /\ writes = <<>>
  /\ outcome = "none"
  /\ message = ""
  /\ result = None
  /\ prev = <<"none", "">>
  /\ rx = None
  /\ first = None
  /\ stale = None
  /\ used = None

Init == CodecInit /\ SessionInit

\* pc values at which start_notify has registered _notification_handler
Subscribed == pc \in {"start_notify", "info_write", "info_wait", "status_write", "status_wait"}

\* pc values inside the try block (the finally clause runs on the way out)
InTry == pc \in {"connect", "start_notify", "info_write", "info_wait", "status_write", "status_wait"}

\* _notification_handler creating the Event it finds missing
NotificationHandler_ArmsSlot(bytes) ==
  /\ response_data' = Some(bytes)
  /\ response_event' = "set"
  /\ UNCHANGED device_info

\* _notification_handler(sender, data)
NotificationHandler(bytes) ==
  /\ response_data' = Some(bytes)
  /\ response_event' = IF response_event # "None" THEN "set" ELSE response_event
  /\ UNCHANGED device_info

\* the transport delivers a notification: the callback runs between two steps of the task
Notify ==
  /\ connected /\ Subscribed
  /\ \E bytes \in Notifications :
       /\ NotificationHandler(bytes)
       /\ first' = IF response_event # "None" /\ IsNone(first) THEN Some(bytes) ELSE first
  /\ rx' = Some([cycle |-> cycle, exchange |-> Len(writes), pc |-> pc,
                 armed |-> response_event # "None"])
  /\ UNCHANGED <<taskVars, obsVars, stale, used, codecVars>>

\* the history of a slot that is reset (_response_data = None, a new Event)
SlotReset ==
  /\ stale' = IF ~IsNone(rx) /\ ~Get(rx).armed THEN response_data ELSE None
  /\ rx' = None
  /\ first' = None

\* the task resumes from the wait of an exchange and reads _response_data
Resumed(wait) ==
  Some([wait |-> wait, cycle |-> cycle, exchange |-> Len(writes),
        bytes |-> response_data, rx |-> rx, first |-> first])

\* the cycle leaves the try block with an exception: finally resets the event,
\* the async with block disconnects the client
Raise(exc, msg) ==
  /\ response_event' = "None"
  /\ connected' = FALSE
  /\ pc' = "idle"
  /\ outcome' = exc
  /\ message' = msg
  /\ result' = None
  /\ UNCHANGED <<cycle, cachedAtStart, prev, rx, first, stale>>

\* _async_update_data is called and the device is not known to the Bluetooth stack:
\* UpdateFailed is raised before the try block
PollDeviceNotFound ==
  /\ pc = "idle" /\ cycle < MaxCycles
  /\ cycle' = cycle + 1
  /\ cachedAtStart' = ~IsNone(device_info)
  /\ writes' = <<>>
  /\ prev' = <<outcome, message>>
  /\ outcome' = "UpdateFailed"
  /\ message' = "Device not found"
  /\ result' = None
  /\ stale' = None /\ used' = None
  /\ UNCHANGED <<coordVars, taskVars, rx, first, codecVars>>

\* _async_update_data is called, the device is found, BleakClient starts to connect
PollStart ==
  /\ pc = "idle" /\ cycle < MaxCycles
  /\ cycle' = cycle + 1
  /\ cachedAtStart' = ~IsNone(device_info)
  /\ writes' = <<>>
  /\ prev' = <<outcome, message>>
  /\ outcome' = "running"
  /\ message' = ""
  /\ result' = None
  /\ pc' = "connect"
  /\ stale' = None /\ used' = None
  /\ UNCHANGED <<coordVars, connected, rx, first, codecVars>>

\* async with BleakClient(ble_device): connected; start_notify is called
Connect ==
  /\ pc = "connect"
  /\ connected' = TRUE
  /\ pc' = "start_notify"
  /\ UNCHANGED <<coordVars, obsVars, histVars, codecVars>>

\* TransportError without the except clause: BleakError leaves the cycle as it is
TransportError_Unwrapped ==
  /\ pc \in {"connect", "start_notify", "info_write", "status_write"}
  /\ Raise("BleakError", "")
  /\ UNCHANGED <<device_info, response_data, writes, used, codecVars>>

\* a transport call (connect, start_notify, write_gatt_char) raises BleakError
TransportError ==
  /\ pc \in {"connect", "start_notify", "info_write", "status_write"}
  /\ Raise("UpdateFailed", "BLE error")
  /\ UNCHANGED <<device_info, response_data, writes, used, codecVars>>

\* BeginStatusExchange writing the status command a second time
BeginStatusExchange_WritesTwice ==
  /\ response_data' = None
  /\ response_event' = "unset"
  /\ writes' = writes \o <<CMD_STATUS_POLL, CMD_STATUS_POLL>>
  /\ pc' = "status_write"
  /\ SlotReset

\* BeginStatusExchange keeping the Event and the bytes of the exchange before
BeginStatusExchange_KeepsSlot ==
  /\ response_data' = response_data
  /\ response_event' = IF response_event = "None" THEN "unset" ELSE response_event
  /\ writes' = Append(writes, CMD_STATUS_POLL)
  /\ pc' = "status_write"
  /\ UNCHANGED <<rx, first, stale>>

\* BeginStatusExchange writing the command with the wait not yet armed
BeginStatusExchange_ArmsLate ==
  /\ response_data' = None
  /\ response_event' = "None"
  /\ writes' = Append(writes, CMD_STATUS_POLL)
  /\ pc' = "status_write"
  /\ SlotReset

\* the lines of _async_update_data from the status exchange's reset to its
\* write_gatt_char call
BeginStatusExchange ==
  /\ response_data' = None
  /\ response_event' = "unset"
  /\ writes' = Append(writes, CMD_STATUS_POLL)
  /\ pc' = "status_write"
  /\ SlotReset

\* StartNotifyDone with a _fetch_device_info that never looks at the cache
StartNotifyDone_NoCacheCheck ==
  /\ pc = "start_notify" /\ connected
  /\ response_data' = None
  /\ response_event' = "unset"
  /\ writes' = Append(writes, CMD_DEVICE_INFO)
  /\ pc' = "info_write"
  /\ SlotReset
  /\ UNCHANGED device_info
  /\ UNCHANGED <<connected, cycle, cachedAtStart, outcome, message, result, prev, used,
                 codecVars>>

\* start_notify returns; _fetch_device_info runs up to its first await: it
\* returns at once when the identity is cached (and the status exchange
\* begins), and otherwise resets the slot and calls write_gatt_char
StartNotifyDone ==
  /\ pc = "start_notify" /\ connected
  /\ IF ~Falsy(device_info)
       THEN /\ BeginStatusExchange
            /\ UNCHANGED device_info
       ELSE /\ response_data' = None
            /\ response_event' = "unset"
            /\ writes' = Append(writes, CMD_DEVICE_INFO)
            /\ pc' = "info_write"
            /\ SlotReset
            /\ UNCHANGED device_info
  /\ UNCHANGED <<connected, cycle, cachedAtStart, outcome, message, result, prev, used,
                 codecVars>>

\* InfoWriteDone going on to the status exchange without waiting for the answer
InfoWriteDone_NoWait ==
  /\ pc = "info_write" /\ connected
  /\ BeginStatusExchange
  /\ UNCHANGED <<device_info, connected, obsVarsButWrites, used, codecVars>>

\* write_gatt_char(CMD_DEVICE_INFO) returns; wait_for(event.wait()) starts
InfoWriteDone ==
  /\ pc = "info_write" /\ connected
  /\ pc' = "info_wait"
  /\ UNCHANGED <<coordVars, connected, obsVars, histVars, codecVars>>

\* InfoTimeout writing the device-info command again instead of raising
InfoTimeout_Retries ==
  /\ pc = "info_wait" /\ response_event = "unset" /\ Len(writes) < 3
  /\ response_data' = None
  /\ response_event' = "unset"
  /\ writes' = Append(writes, CMD_DEVICE_INFO)
  /\ pc' = "info_write"
  /\ SlotReset
  /\ UNCHANGED <<device_info, connected, obsVarsButWrites, used, codecVars>>

\* the device-info wait without a deadline (event.wait() awaited directly)
InfoTimeout_NoDeadline ==
  /\ FALSE
  /\ UNCHANGED vars

\* the device-info wait ends with TimeoutError
InfoTimeout ==
  /\ pc = "info_wait" /\ response_event = "unset"
  /\ Raise("UpdateFailed", "Device info query timeout")
  /\ UNCHANGED <<device_info, response_data, writes, used, codecVars>>

\* InfoResponse storing the raw answer as identity before it is checked
InfoResponse_CachesUnchecked ==
  /\ pc = "info_wait" /\ response_event = "set"
  /\ used' = Resumed("device_info")
  /\ IF Falsy(response_data)
       THEN /\ Raise("UpdateFailed", "No device info response")
            /\ UNCHANGED <<device_info, response_data, writes>>
       ELSE LET info == parse_device_info_response(Get(response_data))
            IN  IF Falsy(info)
                  THEN /\ Raise("UpdateFailed", "Invalid device info response")
                       /\ device_info' = Some([model |-> <<>>, hw_version |-> <<>>,
                                               fw_version |-> <<>>])
                       /\ UNCHANGED <<response_data, writes>>
                  ELSE /\ device_info' = info
                       /\ BeginStatusExchange
                       /\ UNCHANGED <<connected, cycle, cachedAtStart, outcome,
                                      message, result, prev>>
  /\ UNCHANGED codecVars

\* InfoResponse going on to the status exchange after an answer it could not parse
InfoResponse_IgnoresInvalid ==
  /\ pc = "info_wait" /\ response_event = "set"
  /\ used' = Resumed("device_info")
  /\ IF Falsy(response_data)
       THEN /\ Raise("UpdateFailed", "No device info response")
            /\ UNCHANGED <<device_info, response_data, writes>>
       ELSE LET info == parse_device_info_response(Get(response_data))
            IN  /\ device_info' = info
                /\ BeginStatusExchange
                /\ UNCHANGED <<connected, cycle, cachedAtStart, outcome,
                               message, result, prev>>
  /\ UNCHANGED codecVars

\* the event was set: the task resumes after the device-info wait
InfoResponse ==
  /\ pc = "info_wait" /\ response_event = "set"
  /\ used' = Resumed("device_info")
  /\ IF Falsy(response_data)
       THEN /\ Raise("UpdateFailed", "No device info response")
            /\ UNCHANGED <<device_info, response_data, writes>>
       ELSE LET info == parse_device_info_response(Get(response_data))
            IN  IF Falsy(info)
                  THEN /\ Raise("UpdateFailed", "Invalid device info response")
                       /\ UNCHANGED <<device_info, response_data, writes>>
                  ELSE /\ device_info' = info
                       /\ BeginStatusExchange
                       /\ UNCHANGED <<connected, cycle, cachedAtStart, outcome,
                                      message, result, prev>>
  /\ UNCHANGED codecVars

\* write_gatt_char(CMD_STATUS_POLL) returns; wait_for(event.wait()) starts
StatusWriteDone ==
  /\ pc = "status_write" /\ connected
  /\ pc' = "status_wait"
  /\ UNCHANGED <<coordVars, connected, obsVars, histVars, codecVars>>

\* StatusTimeout without the finally clause: the Event stays in the slot
StatusTimeout_NoFinally ==
  /\ pc = "status_wait" /\ response_event = "unset"
  /\ connected' = FALSE
  /\ pc' = "idle"
  /\ outcome' = "UpdateFailed"
  /\ message' = "Status poll timeout"
  /\ result' = None
  /\ UNCHANGED <<coordVars, cycle, cachedAtStart, writes, prev, histVars, codecVars>>

\* the status wait ends with TimeoutError
StatusTimeout ==
  /\ pc = "status_wait" /\ response_event = "unset"
  /\ Raise("UpdateFailed", "Status poll timeout")
  /\ UNCHANGED <<device_info, response_data, writes, used, codecVars>>

\* the event was set: the task resumes after the status wait
StatusResponse ==
  /\ pc = "status_wait" /\ response_event = "set"
  /\ used' = Resumed("status")
  /\ IF Falsy(response_data)
       THEN Raise("UpdateFailed", "No status response")
       ELSE LET status == parse_status_response(Get(response_data))
            IN  IF Falsy(status)
                  THEN Raise("UpdateFailed", "Invalid status response")
                  ELSE \* return status; finally; the client disconnects
                       /\ response_event' = "None"
                       /\ connected' = FALSE
                       /\ pc' = "idle"
                       /\ outcome' = "returned"
                       /\ message' = ""
                       /\ result' = status
                       /\ UNCHANGED <<cycle, cachedAtStart, prev, rx, first, stale>>
  /\ UNCHANGED <<device_info, response_data, writes, codecVars>>

\* Cancel forgetting the cached identity
Cancel_DropsIdentity ==
  /\ InTry
  /\ Raise("CancelledError", "")
  /\ device_info' = None
  /\ UNCHANGED <<response_data, writes, used, codecVars>>

\* the cycle's task is cancelled while it is suspended in an await of the try block
Cancel ==
  /\ InTry
  /\ Raise("CancelledError", "")
  /\ UNCHANGED <<device_info, response_data, writes, used, codecVars>>

\* the BLE link drops; the coordinator registers no disconnect callback
LinkDrop ==
  /\ connected
  /\ connected' = FALSE
  /\ UNCHANGED <<coordVars, pc, obsVars, histVars, codecVars>>

Next ==
  \/ PollDeviceNotFound
  \/ PollStart
  \/ Connect
  \/ TransportError
  \/ StartNotifyDone
  \/ InfoWriteDone
  \/ InfoTimeout
  \/ InfoResponse
  \/ StatusWriteDone
  \/ StatusTimeout
  \/ StatusResponse
  \/ Notify
  \/ Cancel
  \/ LinkDrop

Spec == Init /\ [][Next]_vars

\* a transport call of the cycle (connect, start_notify, write_gatt_char)
\* returns or raises
TransportReturns ==
  \/ Connect
  \/ StartNotifyDone
  \/ InfoWriteDone
  \/ StatusWriteDone
  \/ TransportError

\* the timeout of wait_for (BLE_RESPONSE_TIMEOUT seconds) fires
TimeoutFires ==
  \/ InfoTimeout
  \/ StatusTimeout

\* the task waiting on an Event that was set is run again by the event loop
TaskResumes ==
  \/ InfoResponse
  \/ StatusResponse

\* TaskResumes is enabled exactly while the task is suspended in a wait whose
\* Event is set
ResumePending == pc \in {"info_wait", "status_wait"} /\ response_event = "set"

\* WF_vars(TaskResumes), with ENABLED <<TaskResumes>>_vars written as
\* ResumePending
ResumeFairness == []<>(~ResumePending) \/ []<><<TaskResumes>>_vars

\* the transport's calls end, the event loop fires its timers and runs the
\* task whose Event was set
SpecLive ==
  Spec /\ WF_vars(TransportReturns) /\ WF_vars(TimeoutFires) /\ ResumeFairness

SpecCodec == Init /\ [][CodecNext]_vars

----------------------------------------------------------------------------
(* Properties of the codec, checked under SpecCodec *)

\* C1: every packet made by build_packet, for every 2-byte command code and
\* every payload within the bound, is accepted by validate_packet.
C1_BuildValidates ==
  (origin = "build_packet" /\ op = "validate_packet") => ret = TRUE

C1_Witness ==
  /\ origin = "build_packet" /\ op = "validate_packet" /\ ret = TRUE
  /\ Len(payload) >= 2 /\ command = <<255, 0>>

\* C10 (as claimed): in every packet made by build_packet the LENGTH field
\* (bytes 2..3, little-endian) is the packet's total length minus the two
\* footer bytes.
C10_LengthExcludesFooter ==
  op = "build_packet" => At(ret, 2) + 256 * At(ret, 3) = Len(ret) - 2

\* C10 (amended): in every packet made by build_packet the LENGTH field
\* (bytes 2..3, little-endian) is 10 + len(payload), which is the packet's
\* total length, the two footer bytes included.
C10_LengthIsTotal ==
  op = "build_packet" =>
    /\ At(ret, 2) + 256 * At(ret, 3) = 10 + Len(payload)
    /\ At(ret, 2) + 256 * At(ret, 3) = Len(ret)

C10_Witness ==
  /\ op = "build_packet" /\ Len(payload) >= 2
  /\ At(ret, 2) = 12 /\ At(ret, 3) = 0 /\ Len(ret) = 12

\* C9: validate_packet(data) is True exactly when data has at least 10
\* bytes, ends with 0D 0A, and the CRC of all bytes but the last two is
\* 0x0F47; with any other footer it is False whatever the CRC bytes are.
C9_ValidateIff ==
  op = "validate_packet" =>
    (ret = TRUE <=> /\ Len(data) >= 10
                    /\ data[Len(data) - 1] = 13
                    /\ data[Len(data)] = 10
                    /\ crc16_x25(SubSeq(data, 1, Len(data) - 2)) = 3911)

\* a captured packet whose footer was replaced: the CRC residue still matches
C9_Witness ==
  /\ op = "validate_packet" /\ ret = FALSE
  /\ Len(data) >= 10
  /\ <<data[Len(data) - 1], data[Len(data)]>> # <<13, 10>>
  /\ crc16_x25(SubSeq(data, 1, Len(data) - 2)) = 3911

\* C5: parse_status_response returns a reading exactly when len(data) >= 14,
\* data[0:2] is 24 24, data[4:6] is 4B 0B and validate_packet(data) holds;
\* when any one of the four fails it returns None.
C5_StatusAcceptedIff ==
  op = "parse_status_response" =>
    (~IsNone(ret) <=> /\ Len(data) >= 14
                      /\ data[1] = 36 /\ data[2] = 36
                      /\ data[5] = 75 /\ data[6] = 11
                      /\ validate_packet(data))

\* only the command code is wrong: length, header, footer and CRC are good
C5_Witness ==
  /\ op = "parse_status_response" /\ IsNone(ret)
  /\ Len(data) = 14 /\ data[1] = 36 /\ data[2] = 36
  /\ validate_packet(data)
  /\ <<data[5], data[6]>> # <<75, 11>>

\* C6: for an accepted status packet the voltage is the unsigned 16-bit
\* little-endian value of bytes 6..7, in hundredths of a volt; battery_ok is
\* True exactly when byte 8 is 0x02 and charging exactly when byte 9 is 0x01.
C6_StatusFields ==
  (op = "parse_status_response" /\ ~IsNone(ret)) =>
    LET r == Get(ret) IN
    /\ r.voltage.hundredths \in 0..99
    /\ 100 * r.voltage.units + r.voltage.hundredths = data[7] + 256 * data[8]
    /\ r.battery_ok = (data[9] = 2)
    /\ r.charging = (data[10] = 1)

\* 0xFFEE hundredths of a volt, battery status 0x00, charging byte 0x02
C6_Witness ==
  /\ op = "parse_status_response" /\ ~IsNone(ret)
  /\ data[7] = 238 /\ data[8] = 255 /\ data[9] = 0 /\ data[10] = 2
  /\ Get(ret) = [voltage |-> [units |-> 655, hundredths |-> 18],
                 battery_ok |-> FALSE, charging |-> FALSE]

\* C7: parse_device_info_response returns an identity exactly when
\* len(data) >= 54, data[0:2] is 24 24, data[4:6] is 43 01 and
\* validate_packet(data) holds; otherwise it returns None.
C7_DeviceInfoAcceptedIff ==
  op = "parse_device_info_response" =>
    (~IsNone(ret) <=> /\ Len(data) >= 54
                      /\ data[1] = 36 /\ data[2] = 36
                      /\ data[5] = 67 /\ data[6] = 1
                      /\ validate_packet(data))

\* only the CRC is wrong: length, header, command code and footer are good
C7_Witness ==
  /\ op = "parse_device_info_response" /\ IsNone(ret)
  /\ Len(data) = 54 /\ data[1] = 36 /\ data[2] = 36 /\ data[5] = 67 /\ data[6] = 1
  /\ data[53] = 13 /\ data[54] = 10
  /\ ~validate_packet(data)

\* the text of a 10-byte region: the region up to its last non-NUL byte,
\* without the bytes above 0x7F
TextOfRegion(region) ==
  LET keep == {k \in 1..Len(region) : region[k] # 0}
      n    == IF keep = {} THEN 0 ELSE CHOOSE k \in keep : \A j \in keep : j <= k
      cut  == [k \in 1..n |-> region[k]]
      ascii == {k \in 1..n : cut[k] <= 127}
      pos(i) == CHOOSE k \in ascii : Cardinality({j \in ascii : j < k}) = i - 1
  IN  [i \in 1..Cardinality(ascii) |-> cut[pos(i)]]

DeviceInfoChecksPass ==
  /\ Len(data) >= 54
  /\ data[1] = 36 /\ data[2] = 36 /\ data[5] = 67 /\ data[6] = 1
  /\ validate_packet(data)

\* C8: for an accepted device-info packet, model, hw_version and fw_version
\* are the 10-byte regions at offsets 6, 16 and 26, each cut after its last
\* non-NUL byte and with its non-ASCII bytes dropped; ten NUL bytes give the
\* empty string, and whatever the bytes of the regions the parse returns.
C8_DeviceInfoFields ==
  (op = "parse_device_info_response" /\ DeviceInfoChecksPass) =>
    /\ ~IsNone(ret)
    /\ Get(ret).model = TextOfRegion([k \in 1..10 |-> data[6 + k]])
    /\ Get(ret).hw_version = TextOfRegion([k \in 1..10 |-> data[16 + k]])
    /\ Get(ret).fw_version = TextOfRegion([k \in 1..10 |-> data[26 + k]])
    /\ (\A k \in 7..16 : data[k] = 0) => Get(ret).model = <<>>
    /\ (\A k \in 17..26 : data[k] = 0) => Get(ret).hw_version = <<>>
    /\ (\A k \in 27..36 : data[k] = 0) => Get(ret).fw_version = <<>>

\* model "A", 0xC8, "B" (a non-ASCII byte inside), hardware version all NUL,
\* firmware version "A", NUL, "B" (a NUL inside the text)
C8_Witness ==
  /\ op = "parse_device_info_response" /\ ~IsNone(ret)
  /\ SubSeq(data, 7, 16) = <<65, 200, 66, 0, 0, 0, 0, 0, 0, 0>>
  /\ SubSeq(data, 17, 26) = <<0, 0, 0, 0, 0, 0, 0, 0, 0, 0>>
  /\ SubSeq(data, 27, 36) = <<65, 0, 66, 0, 0, 0, 0, 0, 0, 0>>
  /\ Get(ret) = [model |-> <<65, 66>>, hw_version |-> <<>>, fw_version |-> <<65, 0, 66>>]

\* C11: build_packet(command, payload) is 40 40, then 10 + len(payload) as
\* 16 bits little-endian, the command, the payload, crc16_x25 of all those
\* bytes as 16 bits little-endian, and 0D 0A; build_packet(0B 0B, empty) is
\* 40 40 0A 00 0B 0B A9 B2 0D 0A and build_packet(05 01, 14 00) is
\* 40 40 0C 00 05 01 14 00 0A D6 0D 0A.
C11_BuildLayout ==
  op = "build_packet" =>
    LET n == Len(payload) IN
    /\ Len(ret) = 10 + n
    /\ ret[1] = 64 /\ ret[2] = 64
    /\ ret[3] + 256 * ret[4] = 10 + n
    /\ <<ret[5], ret[6]>> = command
    /\ \A i \in 1..n : ret[6 + i] = payload[i]
    /\ ret[7 + n] + 256 * ret[8 + n] = crc16_x25(SubSeq(ret, 1, 6 + n))
    /\ ret[9 + n] = 13 /\ ret[10 + n] = 10
    /\ (command = <<11, 11>> /\ payload = <<>>) =>
         ret = <<64, 64, 10, 0, 11, 11, 169, 178, 13, 10>>
    /\ (command = <<5, 1>> /\ payload = <<20, 0>>) =>
         ret = <<64, 64, 12, 0, 5, 1, 20, 0, 10, 214, 13, 10>>

\* the known vector with a payload
C11_Witness ==
  /\ op = "build_packet"
  /\ command = <<5, 1>> /\ payload = <<20, 0>>
  /\ ret = <<64, 64, 12, 0, 5, 1, 20, 0, 10, 214, 13, 10>>

\* b is a with exactly one byte replaced, and that byte is not in the footer
OneByteReplaced(a, b) ==
  /\ Len(a) = Len(b)
  /\ \E i \in 1..(Len(a) - 2) :
       /\ a[i] # b[i]
       /\ \A j \in (1..Len(a)) \ {i} : a[j] = b[j]

\* C12: a packet that validate_packet accepts, with one byte outside the
\* footer replaced by a different value (a byte of the CRC field included),
\* is rejected by validate_packet.
C12_SingleByteChangeRejected ==
  op = "validate_packet" =>
    \A c \in Captures :
      (OneByteReplaced(c, data) /\ validate_packet(c)) => ret = FALSE

\* the replaced byte is the high byte of the embedded CRC
C12_Witness ==
  /\ op = "validate_packet" /\ ret = FALSE /\ origin = "corrupted"
  /\ OneByteReplaced(STATUS_OK_CHARGING, data)
  /\ validate_packet(STATUS_OK_CHARGING)
  /\ data[Len(data) - 2] # STATUS_OK_CHARGING[Len(data) - 2]

\* C13: crc16_x25 of any byte sequence lies in 0..0xFFFF; it is 0x0000 for
\* the empty sequence, 0xB2A9 for 40 40 0A 00 0B 0B and 0xD333 for
\* 40 40 0A 00 03 01.
C13_CrcVectors ==
  op = "crc16_x25" =>
    /\ ret.crc \in 0..65535
    /\ ret.bytes = <<>> => ret.crc = 0
    /\ ret.bytes = <<64, 64, 10, 0, 11, 11>> => ret.crc = 45737
    /\ ret.bytes = <<64, 64, 10, 0, 3, 1>> => ret.crc = 54067

\* the device-info command without CRC field and footer
C13_Witness ==
  /\ op = "crc16_x25"
  /\ ret.bytes = <<64, 64, 10, 0, 3, 1>>
  /\ ret.crc = 54067

\* C17 (as claimed): with a reading as coordinator.data, ChargingSensor.is_on
\* is True exactly when the reading's charging flag is True, that is when
\* byte 9 of the status packet was 0x01; it is None without data or without
\* a charging field.
C17_IsOnIffCharging ==
  op = "ChargingSensor.is_on" =>
    IF IsNone(ret.data) THEN IsNone(ret.is_on)
    ELSE IF "charging" \notin DOMAIN Get(ret.data) THEN IsNone(ret.is_on)
    ELSE /\ ret.is_on = Some(Get(ret.data).charging)
         /\ ret.is_on = Some(data[10] = 1)

----------------------------------------------------------------------------
(* Properties of the coordinator, checked under Spec *)

\* the UpdateFailed messages of a failed device-info exchange
InfoFailures ==
  {"Device info query timeout", "No device info response", "Invalid device info response"}

InfoExchangeFailed == outcome = "UpdateFailed" /\ message \in InfoFailures

\* C2: once the identity is cached, a later poll cycle writes no device-info
\* command: _fetch_device_info returns without any transport I/O (the task is
\* never in the device-info write or wait) and the only packet the cycle
\* writes is the status command.
C2_NoInfoExchangeOnceCached ==
  /\ cachedAtStart =>
       /\ pc \notin {"info_write", "info_wait"}
       /\ writes \in {<<>>, <<CMD_STATUS_POLL>>}
  /\ pc \in {"info_write", "info_wait"} => IsNone(device_info)

\* a second cycle, started with the identity cached, returned a reading
C2_Witness ==
  /\ cycle = 2 /\ cachedAtStart /\ outcome = "returned"
  /\ writes = <<CMD_STATUS_POLL>>
  /\ prev = <<"returned", "">>

\* the recorded answer is one the device-info exchange cannot use
InfoAnswerUnusable ==
  \/ Falsy(response_data)
  \/ IsNone(parse_device_info_response(Get(response_data)))

\* after any cycle before which the device-info exchange failed, a cycle that
\* gets as far as _fetch_device_info writes the device-info command first,
\* with the slot cleared and the wait armed
C3_RetryState ==
  /\ InfoExchangeFailed => IsNone(device_info) /\ IsNone(result)
  /\ (prev[1] = "UpdateFailed" /\ prev[2] \in InfoFailures
        /\ pc \in {"info_write", "info_wait", "status_write", "status_wait"}) =>
       /\ ~cachedAtStart
       /\ Len(writes) >= 1 /\ writes[1] = CMD_DEVICE_INFO
  /\ pc \in {"info_write", "info_wait"} =>
       /\ response_event # "None"
       /\ writes = <<CMD_DEVICE_INFO>>
  /\ pc \in {"status_write", "status_wait"} => ~IsNone(device_info)

\* the step that ends a device-info wait without a usable answer (a timeout,
\* an empty notification, bytes parse_device_info_response rejects) ends the
\* cycle with a failure and leaves the identity unset
C3_FailureStep ==
  (pc = "info_wait" /\ pc' # "info_wait" /\ (response_event = "unset" \/ InfoAnswerUnusable)) =>
    /\ pc' = "idle"
    /\ outcome' \in {"UpdateFailed", "CancelledError"}
    /\ outcome' = "UpdateFailed" => message' \in InfoFailures
    /\ IsNone(device_info')
    /\ IsNone(result')

\* C3: a failed device-info exchange (timeout, empty notification, rejected
\* bytes) fails the cycle and leaves the cached identity unset, and the next
\* poll cycle writes the device-info command again and runs the whole exchange.
C3_FailedInfoExchangeIsRetried == [](C3_RetryState) /\ [][C3_FailureStep]_vars

\* the cycle after a device-info failure has written the device-info command
\* again, got a valid answer and moved on to the status exchange
C3_Witness ==
  /\ cycle = 2 /\ prev = <<"UpdateFailed", "Invalid device info response">>
  /\ pc = "status_wait"
  /\ writes = <<CMD_DEVICE_INFO, CMD_STATUS_POLL>>
  /\ ~IsNone(device_info)

\* C4: the status command is written only with the identity cached; a cycle
\* whose device-info exchange failed has written no status command and
\* returns no reading.
C4_StatusOnlyWithIdentity ==
  /\ (\E i \in 1..Len(writes) : writes[i] = CMD_STATUS_POLL) => ~IsNone(device_info)
  /\ pc \in {"status_write", "status_wait"} => ~IsNone(device_info)
  /\ outcome = "returned" => ~IsNone(device_info) /\ ~IsNone(result)
  /\ InfoExchangeFailed =>
       /\ writes = <<CMD_DEVICE_INFO>>
       /\ IsNone(result)

\* the device answered the device-info command with bytes that do not parse
C4_Witness ==
  /\ InfoExchangeFailed /\ message = "Invalid device info response"
  /\ response_data = Some(STATUS_OK_CHARGING)
  /\ writes = <<CMD_DEVICE_INFO>> /\ IsNone(device_info) /\ IsNone(result)

\* the status command's place among the commands written in the cycle
StatusWriteAt == {i \in 1..Len(writes) : writes[i] = CMD_STATUS_POLL}

\* C14: a poll cycle that returns a status reading has written the status
\* command exactly once in that cycle, and the reading is parsed from bytes
\* that a notification delivered in that cycle after the status wait was
\* armed, never from bytes of an earlier cycle or exchange.
C14_StatusNeverCached ==
  outcome = "returned" =>
    /\ Cardinality(StatusWriteAt) = 1
    /\ ~IsNone(used)
    /\ LET u == Get(used) IN
       /\ u.wait = "status" /\ u.cycle = cycle
       /\ ~IsNone(u.bytes)
       /\ result = parse_status_response(Get(u.bytes))
       /\ ~IsNone(u.rx)
       /\ Get(u.rx).cycle = cycle
       /\ Get(u.rx).armed
       /\ Get(u.rx).exchange \in StatusWriteAt
       /\ Get(u.rx).pc \in {"status_write", "status_wait"}

\* the second cycle, with the identity cached, returns a reading of its own
C14_Witness ==
  /\ cycle = 2 /\ cachedAtStart /\ prev = <<"returned", "">>
  /\ outcome = "returned"
  /\ writes = <<CMD_STATUS_POLL>>
  /\ Get(used).bytes = Some(STATUS_NOT_CHARGING)
  /\ result = parse_status_response(STATUS_NOT_CHARGING)

\* the messages of the UpdateFailed raised by _async_update_data
FailureMessages ==
  {"Device not found", "BLE error", "Device info query timeout",
   "No device info response", "Invalid device info response",
   "Status poll timeout", "No status response", "Invalid status response"}

\* a step that ends a poll cycle
C15_CycleEnds == pc' = "idle" /\ (pc # "idle" \/ cycle' # cycle)

\* the response the task finds when it resumes from a wait is unusable
C15_BadResponse ==
  /\ response_event = "set"
  /\ \/ Falsy(response_data)
     \/ pc = "info_wait" /\ IsNone(parse_device_info_response(Get(response_data)))
     \/ pc = "status_wait" /\ IsNone(parse_status_response(Get(response_data)))

C15_Step ==
  /\ C15_CycleEnds =>
       /\ outcome' \in {"returned", "UpdateFailed", "CancelledError"}
       /\ outcome' = "UpdateFailed" => message' \in FailureMessages
       /\ outcome' # "returned" => result' = None
       /\ outcome' = "returned" =>
            /\ pc = "status_wait" /\ response_event = "set"
            /\ ~Falsy(response_data)
            /\ result' = parse_status_response(Get(response_data))
            /\ ~IsNone(result')
       /\ cycle' # cycle => outcome' = "UpdateFailed"
       /\ (pc \in {"info_wait", "status_wait"} /\ response_event = "unset") =>
            outcome' \in {"UpdateFailed", "CancelledError"}
  /\ (pc \in {"info_wait", "status_wait"} /\ pc' # pc /\ C15_BadResponse) =>
       /\ pc' = "idle"
       /\ outcome' \in {"UpdateFailed", "CancelledError"}

\* C15: every failure of a poll cycle (device not found, BleakError on
\* connect, subscribe or write, timeout, empty or unparseable response, in
\* either exchange) ends the cycle with UpdateFailed and without a reading;
\* the only other ways a cycle ends are a returned reading and cancellation.
C15_FailuresAreUpdateFailed == [][C15_Step]_vars

\* the status exchange of a cycle ends on a response with a bad CRC
C15_Witness ==
  /\ cycle = 1 /\ pc = "idle"
  /\ outcome = "UpdateFailed" /\ message = "Invalid status response"
  /\ result = None
  /\ Get(used).wait = "status" /\ Get(used).bytes = Some(StatusBadCrc)

\* C16 (as claimed): a wait during which the link dropped (command written,
\* no response yet) is resolved by the drop and never left to end by the
\* response timeout.
C16_DroppedWaitNotLeftToTimeout ==
  [][(/\ pc \in {"info_wait", "status_wait"}
      /\ ~connected /\ response_event = "unset"
      /\ pc' = "idle")
     => message' \notin {"Device info query timeout", "Status poll timeout"}]_vars

\* a step in which write_gatt_char is called
C18_Writes == writes' # writes /\ writes' # <<>>

\* C18: at most one request is outstanding: no command is written while the
\* wait of an earlier command is armed and unresolved, and the status command
\* follows a device-info command of its cycle only after the task resumed
\* from the device-info wait with its event set.
C18_OneRequestOutstanding ==
  /\ [][C18_Writes => /\ Len(writes') = Len(writes) + 1
                      /\ response_event # "unset"
                      /\ (writes # <<>>) =>
                           /\ pc = "info_wait" /\ response_event = "set"
                           /\ writes' = <<CMD_DEVICE_INFO, CMD_STATUS_POLL>>]_vars
  /\ []((Len(writes) = 2) =>
          /\ ~IsNone(used)
          /\ Get(used).cycle = cycle
          /\ \/ Get(used).wait = "device_info" /\ Get(used).exchange = 1
             \/ Get(used).wait = "status" /\ Get(used).exchange = 2 /\ pc = "idle")

\* the status request is outstanding after the device-info wait was resolved
C18_Witness ==
  /\ writes = <<CMD_DEVICE_INFO, CMD_STATUS_POLL>>
  /\ pc = "status_wait" /\ response_event = "unset"
  /\ Get(used).wait = "device_info" /\ Get(used).bytes = Some(DEVICE_INFO_BK300)

\* C19 (as claimed): the wait is armed only after the write, so a
\* notification delivered before write_gatt_char has returned does not
\* resolve the exchange's wait.
C19_WriteBeforeArm ==
  pc \in {"info_write", "status_write"} => response_event # "set"

\* a step in which the notification callback runs
C19_Notified == rx' # rx /\ ~IsNone(rx')

\* C19 (amended): each exchange clears the slot, arms the wait (a new Event),
\* then writes the command, then waits: the slot is cleared and armed when
\* write_gatt_char is called, it stays armed during the write and the wait,
\* and a notification delivered during the write resolves the wait.
C19_ArmBeforeWrite ==
  /\ [][C18_Writes => (response_data' = None /\ response_event' = "unset")]_vars
  /\ [](pc \in {"info_write", "info_wait", "status_write", "status_wait"}
          => response_event # "None")
  /\ [][(pc \in {"info_write", "status_write"} /\ C19_Notified)
          => (response_event' = "set" /\ ~IsNone(response_data'))]_vars

\* a reading is returned from the bytes notified while the write was in progress
C19_Witness ==
  /\ outcome = "returned"
  /\ Get(used).wait = "status"
  /\ Get(Get(used).rx).pc = "status_write"
  /\ Get(used).first = Get(used).bytes

\* C20: a notification delivered while no wait is armed (after a wait was
\* resolved and before the next one is armed) is recorded in _response_data
\* and discarded by the next arming: the bytes the task reads when it
\* resumes from a wait were delivered after that wait was armed.
C20_ParsedBytesPostdateArming ==
  /\ (~IsNone(rx) /\ ~Get(rx).armed) =>
       (~IsNone(response_data) /\ response_event = "None")
  /\ ~IsNone(used) =>
       LET u == Get(used) IN
       /\ ~IsNone(u.bytes) /\ ~IsNone(u.rx)
       /\ Get(u.rx).armed
       /\ Get(u.rx).cycle = u.cycle
       /\ Get(u.rx).exchange = u.exchange
       /\ (~IsNone(stale) /\ u.cycle = cycle) => ~IsNone(u.first)

\* a status packet notified before the status wait was armed is discarded,
\* and the cycle returns the reading of the packet notified afterwards
C20_Witness ==
  /\ outcome = "returned" /\ cachedAtStart
  /\ stale = Some(STATUS_OK_CHARGING)
  /\ Get(used).wait = "status"
  /\ Get(used).bytes = Some(STATUS_NOT_CHARGING)
  /\ result = parse_status_response(STATUS_NOT_CHARGING)

\* bytes that are no valid response to the command a wait follows
C21_Invalid(wait, bytes) ==
  \/ bytes = <<>>
  \/ wait = "device_info" /\ IsNone(parse_device_info_response(bytes))
  \/ wait = "status" /\ IsNone(parse_status_response(bytes))

\* C21 (as claimed): when the notification that resolves an armed wait
\* carries bytes that are no valid response of the awaited kind, the cycle
\* fails as an invalid (or empty) response of that exchange.
C21_InvalidNotificationFailsCycle ==
  (/\ ~IsNone(used) /\ Get(used).cycle = cycle
   /\ ~IsNone(Get(used).first)
   /\ C21_Invalid(Get(used).wait, Get(Get(used).first)))
  => /\ outcome = "UpdateFailed"
     /\ Get(used).wait = "device_info" =>
          message \in {"No device info response", "Invalid device info response"}
     /\ Get(used).wait = "status" =>
          message \in {"No status response", "Invalid status response"}

\* the commands of one kind written in the cycle
WritesOf(cmd) == {i \in 1..Len(writes) : writes[i] = cmd}

\* C22: in every poll cycle, whatever notifications, timeouts or errors
\* occur, the device-info command is written at most once and the status
\* command at most once, and nothing else is written.
C22_NoRetryInCycle ==
  /\ Cardinality(WritesOf(CMD_DEVICE_INFO)) <= 1
  /\ Cardinality(WritesOf(CMD_STATUS_POLL)) <= 1
  /\ Len(writes) = Cardinality(WritesOf(CMD_DEVICE_INFO))
                   + Cardinality(WritesOf(CMD_STATUS_POLL))

\* a cycle that wrote both commands and failed on the status timeout
C22_Witness ==
  /\ pc = "idle" /\ outcome = "UpdateFailed" /\ message = "Status poll timeout"
  /\ writes = <<CMD_DEVICE_INFO, CMD_STATUS_POLL>>

\* C23: the cached identity is set only by the task resuming from a
\* device-info wait, from bytes parse_device_info_response accepted, and once
\* set no step (cycle, notification, timeout, transport error, cancellation)
\* changes or clears it.
C23_IdentityWriteOnce ==
  [][/\ ~IsNone(device_info) => device_info' = device_info
     /\ device_info' # device_info =>
          /\ pc = "info_wait" /\ response_event = "set"
          /\ ~Falsy(response_data)
          /\ ~IsNone(device_info')
          /\ device_info' = parse_device_info_response(Get(response_data))]_vars

\* the identity of the first cycle is kept in a second cycle in which another
\* identity was notified and which failed
C23_Witness ==
  /\ cycle = 2 /\ prev = <<"returned", "">>
  /\ outcome = "UpdateFailed"
  /\ device_info = Some(DeviceInfoFields(DEVICE_INFO_BK300))
  /\ response_data = Some(DEVICE_INFO_BK100)

\* C25: after a poll cycle ends, for whatever reason, and until the next
\* cycle arms a wait, _response_event is None: no wait is armed.
C25_NoWaitArmedAfterCycle ==
  pc \in {"idle", "connect", "start_notify"} => response_event = "None"

\* a cycle was cancelled after its device-info command was written; a
\* notification in the next cycle finds no Event
C25_Witness ==
  /\ cycle = 2 /\ prev = <<"CancelledError", "">>
  /\ pc = "start_notify"
  /\ ~IsNone(rx) /\ ~Get(rx).armed
  /\ response_event = "None"

\* a step in which the notification callback ran and changed something
C26_Notified ==
  /\ ~IsNone(response_data')
  /\ response_data' # response_data \/ rx' # rx

\* C26: the notification callback replaces the recorded bytes by the
\* delivered ones, sets the Event exactly when the slot holds one, and leaves
\* everything else as it is: the identity, whether the slot is armed, the
\* task and the cycle's outcome.
C26_CallbackFrame ==
  [][C26_Notified =>
       /\ response_data' \in {Some(b) : b \in Notifications}
       /\ response_event = "unset" => first' = response_data'
       /\ response_event = "None" => response_event' = "None"
       /\ response_event # "None" => response_event' = "set"
       /\ device_info' = device_info
       /\ UNCHANGED <<taskVars, obsVars>>]_vars

\* the callback ran with no wait armed: the bytes are recorded, the slot is
\* unarmed and the cached identity is the one of the cycle before
C26_Witness ==
  /\ pc = "start_notify" /\ response_event = "None"
  /\ ~IsNone(rx) /\ ~Get(rx).armed
  /\ response_data = Some(DEVICE_INFO_BK100)
  /\ device_info = Some(DeviceInfoFields(DEVICE_INFO_BK300))

\* C27 (as claimed): the bytes the task parses when it resumes from a wait
\* are those of the first notification delivered after the wait was armed.
C27_FirstNotificationIsParsed ==
  ~IsNone(used) => Get(used).bytes = Get(used).first

\* C28: the device-info request the session writes is
\* build_packet(03 01, empty), the status request is
\* build_packet(0B 0B, empty), and validate_packet accepts both.
C28_WritesAreBuilt ==
  [][C18_Writes =>
       LET w == writes'[Len(writes')] IN
       /\ validate_packet(w)
       /\ IF pc = "start_notify" /\ IsNone(device_info)
            THEN w = CMD_DEVICE_INFO /\ w = build_packet(<<3, 1>>, <<>>)
            ELSE w = CMD_STATUS_POLL /\ w = build_packet(<<11, 11>>, <<>>)]_vars

\* both requests were written in one cycle
C28_Witness ==
  /\ pc = "status_write"
  /\ writes = <<<<64, 64, 10, 0, 3, 1, 51, 211, 13, 10>>,
                <<64, 64, 10, 0, 11, 11, 169, 178, 13, 10>>>>

\* C24: with the timers of the event loop firing and the transport's calls
\* ending, every armed wait is left (by a notification or by the response
\* timeout) and every started poll cycle ends, returning a reading or
\* raising; no cycle waits forever when the device stays silent.
C24_EveryCycleEnds ==
  /\ [](pc \in {"info_wait", "status_wait"}
          => <>(pc \notin {"info_wait", "status_wait"}))
  /\ [](pc # "idle"
          => <>(pc = "idle" /\ outcome \in {"returned", "UpdateFailed", "CancelledError"}))

\* the device stayed silent during the status wait; the timeout ended the cycle
C24_Witness ==
  /\ pc = "idle" /\ outcome = "UpdateFailed" /\ message = "Status poll timeout"
  /\ IsNone(rx) /\ IsNone(first)
  /\ writes = <<CMD_STATUS_POLL>>

----------------------------------------------------------------------------
(* C29: the layout of the packets the parsers accept *)

\* the LENGTH field of the packet at hand (bytes 2..3, little-endian)
LengthField == data[3] + 256 * data[4]

\* C29 as stated: parse_status_response returns a reading only for packets
\* whose LENGTH field is 0x000E and whose total length is 14 bytes, and
\* parse_device_info_response returns an identity only for packets whose
\* LENGTH field is 0x0036 and whose total length is 54 bytes.
C29_AcceptedOnlyInDocumentedLayout ==
  /\ (op = "parse_status_response" /\ ~IsNone(ret)) =>
       (LengthField = 14 /\ Len(data) = 14)
  /\ (op = "parse_device_info_response" /\ ~IsNone(ret)) =>
       (LengthField = 54 /\ Len(data) = 54)

\* C29, amended: parse_status_response returns a reading only for packets
\* of at least 14 bytes and parse_device_info_response an identity only for
\* packets of at least 54 bytes; neither tests the LENGTH field or the exact
\* total length, so a packet with the inbound header, the command code, the
\* CRC residue and the footer is accepted whatever its LENGTH field holds
\* and however many bytes beyond the minimum it has.
C29_AcceptedFromMinimumLength ==
  /\ (op = "parse_status_response" /\ ~IsNone(ret)) => Len(data) >= 14
  /\ (op = "parse_device_info_response" /\ ~IsNone(ret)) => Len(data) >= 54
  /\ (/\ op = "parse_status_response"
      /\ Len(data) >= 14
      /\ <<data[1], data[2]>> = HEADER_IN /\ <<data[5], data[6]>> = RSP_STATUS
      /\ validate_packet(data)) => ~IsNone(ret)
  /\ (/\ op = "parse_device_info_response"
      /\ Len(data) >= 54
      /\ <<data[1], data[2]>> = HEADER_IN /\ <<data[5], data[6]>> = RSP_DEVICE_INFO
      /\ validate_packet(data)) => ~IsNone(ret)

\* a 15-byte status packet whose LENGTH field is zero is parsed
C29_Witness ==
  /\ op = "parse_status_response" /\ ~IsNone(ret)
  /\ origin = "crafted"
  /\ Len(data) = 15 /\ LengthField = 0
  /\ Get(ret).battery_ok /\ Get(ret).charging

\* a 55-byte device-info packet whose LENGTH field is zero is parsed
C29_WitnessDeviceInfo ==
  /\ op = "parse_device_info_response" /\ ~IsNone(ret)
  /\ origin = "crafted"
  /\ Len(data) = 55 /\ LengthField = 0
  /\ Get(ret).model = <<66, 75, 51, 48, 48>>

----------------------------------------------------------------------------
(* C30: the returned strings and the NUL character *)

\* the string ends with a NUL character
EndsWithNul(str) == Len(str) > 0 /\ str[Len(str)] = 0

\* C30: for every packet accepted by parse_device_info_response, none of
\* model, hw_version, fw_version ends with a NUL character, also when the
\* 10-byte region holds non-ASCII bytes that the decoding drops.
C30_NoTrailingNul ==
  (op = "parse_device_info_response" /\ ~IsNone(ret)) =>
    /\ ~EndsWithNul(Get(ret).model)
    /\ ~EndsWithNul(Get(ret).hw_version)
    /\ ~EndsWithNul(Get(ret).fw_version)

----------------------------------------------------------------------------
(* C31: the state of charge *)

\* the reading, its voltage and both bounds are there
C31_HasRange ==
  /\ ~IsNone(ret.data)
  /\ "voltage" \in DOMAIN Get(ret.data)
  /\ {"voltage_min", "voltage_max"} \subseteq DOMAIN ret.options

C31_WitnessAbove ==
  /\ op = "BatterySoCSensor.native_value"
  /\ ~IsNone(ret.data) /\ "voltage" \in DOMAIN Get(ret.data)
  /\ Get(ret.data).voltage = [units |-> 652, hundredths |-> 80]
  /\ ret.options = [voltage_min |-> 1050, voltage_max |-> 1280]
  /\ ret.native_value = Some(100)

\* 2.55 V is below the range: int(soc) is -345 and 0 is returned
C31_WitnessBelow ==
  /\ op = "BatterySoCSensor.native_value"
  /\ ~IsNone(ret.data) /\ "voltage" \in DOMAIN Get(ret.data)
  /\ Get(ret.data).voltage = [units |-> 2, hundredths |-> 55]
  /\ ret.options = [voltage_min |-> 1050, voltage_max |-> 1280]
  /\ ret.native_value = Some(0)

\* a reversed range with a reading gives None
C31_WitnessReversed ==
  /\ op = "BatterySoCSensor.native_value"
  /\ ~IsNone(ret.data) /\ "voltage" \in DOMAIN Get(ret.data)
  /\ ret.options = [voltage_min |-> 1280, voltage_max |-> 1050]
  /\ IsNone(ret.native_value)

\* 2.55 V in 2.38..2.72 V: the float falls below 50 and 49 is returned
C31_WitnessFloat ==
  /\ op = "BatterySoCSensor.native_value"
  /\ ~IsNone(ret.data) /\ "voltage" \in DOMAIN Get(ret.data)
  /\ Get(ret.data).voltage = [units |-> 2, hundredths |-> 55]
  /\ ret.options = [voltage_min |-> 238, voltage_max |-> 272]
  /\ ret.native_value = Some(49)

====
